---- MODULE Spec2Model ----
(***************************************************************************)
(* Model of termdash's internal/area package (integer rectangle            *)
(* arithmetic) and of the table Cell constructor with its functional       *)
(* options (content_cell.go).                                              *)
(*                                                                         *)
(* Spec     : one call of an area function on an area drawn from a bounded *)
(*            grid; the call's arguments and its return values are state.  *)
(* SpecCell : one call of NewCell / NewCellWithOpts, the option loop       *)
(*            unrolled one option per step.                                *)
(***************************************************************************)
EXTENDS Integers, Sequences, FiniteSets, TLC

VARIABLES pc, area, op, args, ret, cpc, opts, idx, cell

vars == <<pc, area, op, args, ret, cpc, opts, idx, cell>>
areaVars == <<pc, area, op, args, ret>>

(***************************************************************************)
(* Bounds of the explored inputs.                                          *)
(***************************************************************************)
NegSpan == 2
PosSpan == 1
MaxDim == 3
MaxCells == 2
MaxRatio == 4
MaxOpts == 3
MaxVal == 1

(***************************************************************************)
(* image.Point / image.Rectangle of the Go standard library, as the        *)
(* package uses them.                                                      *)
(***************************************************************************)
Pt(x, y) == [X |-> x, Y |-> y]

ZP == Pt(0, 0)

ZR == [Min |-> ZP, Max |-> ZP]

\* image.Rect: the constructor canonicalises, swapping coordinates so that
\* Min.X <= Max.X and Min.Y <= Max.Y.
Rect(x0, y0, x1, y1) ==
  [Min |-> Pt(IF x0 > x1 THEN x1 ELSE x0, IF y0 > y1 THEN y1 ELSE y0),
   Max |-> Pt(IF x0 > x1 THEN x0 ELSE x1, IF y0 > y1 THEN y0 ELSE y1)]

Dx(r) == r.Max.X - r.Min.X

Dy(r) == r.Max.Y - r.Min.Y

\* Go's integer division truncates toward zero.
GoDiv(a, b) ==
  IF (a >= 0) = (b > 0)
    THEN (IF a >= 0 THEN a ELSE -a) \div (IF b > 0 THEN b ELSE -b)
    ELSE -((IF a >= 0 THEN a ELSE -a) \div (IF b > 0 THEN b ELSE -b))

(***************************************************************************)
(* internal/numbers helpers (the package is not part of the sources at     *)
(* hand; modelled after their described contract).                         *)
(***************************************************************************)
Abs(x) == IF x < 0 THEN -x ELSE x

\* MinMaxInts returns the smallest and the largest element of the slice.
MinMaxInts(s) ==
  <<CHOOSE m \in {s[i] : i \in 1..Len(s)} : \A i \in 1..Len(s) : m <= s[i],
    CHOOSE m \in {s[i] : i \in 1..Len(s)} : \A i \in 1..Len(s) : m >= s[i]>>

RECURSIVE GCD(_, _)
\* Euclid's algorithm, used on positive integers only.
GCD(a, b) == IF b = 0 THEN a ELSE GCD(b, a % b)

\* SimplifyRatio reduces the ratio to lowest terms.  Its contract is known
\* for the zero point and for ratios with two positive components; the
\* model draws no other ratio.
SimplifyRatio(ratio) ==
  IF ratio = ZP
    THEN ZP
    ELSE Pt(ratio.X \div GCD(ratio.X, ratio.Y), ratio.Y \div GCD(ratio.X, ratio.Y))

(***************************************************************************)
(* The area functions.  A call's return values are modelled as             *)
(* [rects |-> the rectangles returned, err |-> whether err != nil].        *)
(***************************************************************************)
Result(rs, e) == [rects |-> rs, err |-> e]

Size(a) == Pt(Dx(a), Dy(a))

FromSize(size) ==
  IF size.X < 0 \/ size.Y < 0
    THEN Result(<<ZR>>, TRUE)
    ELSE Result(<<Rect(0, 0, size.X, size.Y)>>, FALSE)

\* Splits one row too low.
HSplit_mut(a, heightPerc) ==
  IF heightPerc < 0 \/ heightPerc > 100
    THEN Result(<<ZR, ZR>>, TRUE)
    ELSE LET height == GoDiv(Dy(a) * heightPerc, 100) + 1
             top == Rect(a.Min.X, a.Min.Y, a.Max.X, a.Min.Y + height)
             bottom == Rect(a.Min.X, a.Min.Y + height, a.Max.X, a.Max.Y)
         IN Result(<<IF Dy(top) = 0 THEN ZR ELSE top,
                     IF Dy(bottom) = 0 THEN ZR ELSE bottom>>, FALSE)

HSplit(a, heightPerc) ==
  IF heightPerc < 0 \/ heightPerc > 100
    THEN Result(<<ZR, ZR>>, TRUE)
    ELSE LET height == GoDiv(Dy(a) * heightPerc, 100)
             top == Rect(a.Min.X, a.Min.Y, a.Max.X, a.Min.Y + height)
             bottom == Rect(a.Min.X, a.Min.Y + height, a.Max.X, a.Max.Y)
         IN Result(<<IF Dy(top) = 0 THEN ZR ELSE top,
                     IF Dy(bottom) = 0 THEN ZR ELSE bottom>>, FALSE)

\* A validation that rejects the upper end of the range.
VSplit_mut(a, widthPerc) ==
  IF widthPerc < 0 \/ widthPerc >= 100
    THEN Result(<<ZR, ZR>>, TRUE)
    ELSE LET width == GoDiv(Dx(a) * widthPerc, 100)
             left == Rect(a.Min.X, a.Min.Y, a.Min.X + width, a.Max.Y)
             right == Rect(a.Min.X + width, a.Min.Y, a.Max.X, a.Max.Y)
         IN Result(<<IF Dx(left) = 0 THEN ZR ELSE left,
                     IF Dx(right) = 0 THEN ZR ELSE right>>, FALSE)

VSplit(a, widthPerc) ==
  IF widthPerc < 0 \/ widthPerc > 100
    THEN Result(<<ZR, ZR>>, TRUE)
    ELSE LET width == GoDiv(Dx(a) * widthPerc, 100)
             left == Rect(a.Min.X, a.Min.Y, a.Min.X + width, a.Max.Y)
             right == Rect(a.Min.X + width, a.Min.Y, a.Max.X, a.Max.Y)
         IN Result(<<IF Dx(left) = 0 THEN ZR ELSE left,
                     IF Dx(right) = 0 THEN ZR ELSE right>>, FALSE)

minDim == 2

ExcludeBorder(a) ==
  IF Dx(a) < minDim \/ Dy(a) < minDim
    THEN Result(<<ZR>>, FALSE)
    ELSE Result(<<Rect(Abs(a.Min.X + 1), Abs(a.Min.Y + 1),
                       Abs(a.Max.X - 1), Abs(a.Max.Y - 1))>>, FALSE)

\* Picks the larger of the two factors.
WithRatio_mut(a, ratio0) ==
  LET ratio == SimplifyRatio(ratio0) IN
  IF a = ZR \/ ratio = ZP
    THEN Result(<<ZR>>, FALSE)
    ELSE LET wFact == GoDiv(Dx(a), ratio.X)
             hFact == GoDiv(Dy(a), ratio.Y)
             fact == IF wFact < hFact THEN hFact ELSE wFact
         IN Result(<<Rect(a.Min.X, a.Min.Y,
                          ratio.X * fact + a.Min.X, ratio.Y * fact + a.Min.Y)>>, FALSE)

WithRatio(a, ratio0) ==
  LET ratio == SimplifyRatio(ratio0) IN
  IF a = ZR \/ ratio = ZP
    THEN Result(<<ZR>>, FALSE)
    ELSE LET wFact == GoDiv(Dx(a), ratio.X)
             hFact == GoDiv(Dy(a), ratio.Y)
             fact == IF wFact < hFact THEN wFact ELSE hFact
         IN Result(<<Rect(a.Min.X, a.Min.Y,
                          ratio.X * fact + a.Min.X, ratio.Y * fact + a.Min.Y)>>, FALSE)

\* Leaves out the clamping of the max corner against the new min corner.
Shrink_mut(a, topCells, rightCells, bottomCells, leftCells) ==
  IF topCells < 0 \/ rightCells < 0 \/ bottomCells < 0 \/ leftCells < 0
    THEN Result(<<ZR>>, TRUE)
    ELSE LET minX == MinMaxInts(<<a.Min.X + leftCells, a.Max.X>>)[1]
             maxX == a.Max.X - rightCells
             minY == MinMaxInts(<<a.Min.Y + topCells, a.Max.Y>>)[1]
             maxY == a.Max.Y - bottomCells
             shrinked == [Min |-> Pt(minX, minY), Max |-> Pt(maxX, maxY)]
         IN IF Dx(shrinked) = 0 \/ Dy(shrinked) = 0
              THEN Result(<<ZR>>, FALSE)
              ELSE Result(<<shrinked>>, FALSE)

Shrink(a, topCells, rightCells, bottomCells, leftCells) ==
  IF topCells < 0 \/ rightCells < 0 \/ bottomCells < 0 \/ leftCells < 0
    THEN Result(<<ZR>>, TRUE)
    ELSE LET minX == MinMaxInts(<<a.Min.X + leftCells, a.Max.X>>)[1]
             maxX == MinMaxInts(<<a.Max.X - rightCells, minX>>)[2]
             minY == MinMaxInts(<<a.Min.Y + topCells, a.Max.Y>>)[1]
             maxY == MinMaxInts(<<a.Max.Y - bottomCells, minY>>)[2]
             shrinked == [Min |-> Pt(minX, minY), Max |-> Pt(maxX, maxY)]
         IN IF Dx(shrinked) = 0 \/ Dy(shrinked) = 0
              THEN Result(<<ZR>>, FALSE)
              ELSE Result(<<shrinked>>, FALSE)

\* Rounds the cell counts up instead of truncating.
ShrinkPercent_mut(a, topPerc, rightPerc, bottomPerc, leftPerc) ==
  IF \E v \in {topPerc, rightPerc, bottomPerc, leftPerc} : v < 0 \/ v > 100
    THEN Result(<<ZR>>, TRUE)
    ELSE Shrink(a, GoDiv(Dy(a) * topPerc + 99, 100), GoDiv(Dx(a) * rightPerc + 99, 100),
                   GoDiv(Dy(a) * bottomPerc + 99, 100), GoDiv(Dx(a) * leftPerc + 99, 100))

ShrinkPercent(a, topPerc, rightPerc, bottomPerc, leftPerc) ==
  IF \E v \in {topPerc, rightPerc, bottomPerc, leftPerc} : v < 0 \/ v > 100
    THEN Result(<<ZR>>, TRUE)
    ELSE Shrink(a, GoDiv(Dy(a) * topPerc, 100), GoDiv(Dx(a) * rightPerc, 100),
                   GoDiv(Dy(a) * bottomPerc, 100), GoDiv(Dx(a) * leftPerc, 100))

(***************************************************************************)
(* Inputs of the area functions.                                           *)
(***************************************************************************)
Coords == (-NegSpan)..PosSpan

\* Well-formed rectangles (Min <= Max componentwise) and the zero rectangle.
Areas ==
  {[Min |-> Pt(x, y), Max |-> Pt(x + w, y + h)] :
     x \in Coords, y \in Coords, w \in 0..MaxDim, h \in 0..MaxDim}

Percs == (-1)..101

ShrinkPercs == {-1, 0, 50, 100, 101}

Cells == (-1)..MaxCells

Sizes == {Pt(x, y) : x \in (-1)..MaxDim, y \in (-1)..MaxDim}

Ratios == {ZP} \cup {Pt(x, y) : x \in 1..MaxRatio, y \in 1..MaxRatio}

(***************************************************************************)
(* The Cell of a table row and its functional options.                     *)
(* A nil pointer is <<>>, a pointer to v is <<v>>; the nil slice is <<>>.  *)
(***************************************************************************)
\* &hierarchicalOptions{}: every field unset.
EmptyHierarchical ==
  [cellOpts |-> <<>>, height |-> <<>>, horizontalPadding |-> <<>>,
   verticalPadding |-> <<>>, alignHorizontal |-> <<>>, alignVertical |-> <<>>,
   wrapMode |-> <<>>]

\* The value of the cell variable before a constructor has run.
NoCell == [data |-> <<>>, colSpan |-> 0, rowSpan |-> 0, hierarchical |-> EmptyHierarchical]

\* wrap.AtWords
AtWords == 2

\* Keeps an earlier write: only a span still at its default is set.
CellColSpan_mut(c, cols) == IF c.colSpan = 1 THEN [c EXCEPT !.colSpan = cols] ELSE c

CellColSpan(c, cols) == [c EXCEPT !.colSpan = cols]

\* Writes colSpan as well.
CellRowSpan_mut(c, rows) == [c EXCEPT !.rowSpan = rows, !.colSpan = rows]

CellRowSpan(c, rows) == [c EXCEPT !.rowSpan = rows]

CellOpts(c, cellOpts) == [c EXCEPT !.hierarchical.cellOpts = cellOpts]

CellHeight(c, height) == [c EXCEPT !.hierarchical.height = <<height>>]

CellHorizontalPadding(c, cells) == [c EXCEPT !.hierarchical.horizontalPadding = <<cells>>]

CellVerticalPadding(c, cells) == [c EXCEPT !.hierarchical.verticalPadding = <<cells>>]

CellAlignHorizontal(c, h) == [c EXCEPT !.hierarchical.alignHorizontal = <<h>>]

CellAlignVertical(c, v) == [c EXCEPT !.hierarchical.alignVertical = <<v>>]

CellWrapAtWords(c) == [c EXCEPT !.hierarchical.wrapMode = <<AtWords>>]

\* A CellOption value: the setter that built it and the arguments it closed over.
Opt(k, v) == [kind |-> k, val |-> v]

IntKinds ==
  {"CellColSpan", "CellRowSpan", "CellHeight", "CellHorizontalPadding",
   "CellVerticalPadding", "CellAlignHorizontal", "CellAlignVertical"}

Options ==
  {Opt(k, <<v>>) : k \in IntKinds, v \in 0..MaxVal}
    \cup {Opt("CellOpts", v) : v \in {<<>>, <<1>>, <<1, 2>>}}
    \cup {Opt("CellWrapAtWords", <<>>)}

\* opt.set(c): the option's closure runs on the cell.
set(o, c) ==
  CASE o.kind = "CellColSpan" -> CellColSpan(c, o.val[1])
    [] o.kind = "CellRowSpan" -> CellRowSpan(c, o.val[1])
    [] o.kind = "CellOpts" -> CellOpts(c, o.val)
    [] o.kind = "CellHeight" -> CellHeight(c, o.val[1])
    [] o.kind = "CellHorizontalPadding" -> CellHorizontalPadding(c, o.val[1])
    [] o.kind = "CellVerticalPadding" -> CellVerticalPadding(c, o.val[1])
    [] o.kind = "CellAlignHorizontal" -> CellAlignHorizontal(c, o.val[1])
    [] o.kind = "CellAlignVertical" -> CellAlignVertical(c, o.val[1])
    [] o.kind = "CellWrapAtWords" -> CellWrapAtWords(c)

RECURSIVE OptLists(_)
\* The option lists of length at most n.
OptLists(n) ==
  IF n = 0
    THEN {<<>>}
    ELSE OptLists(n - 1)
           \cup {Append(l, o) : l \in {m \in OptLists(n - 1) : Len(m) = n - 1}, o \in Options}

DataLists == {<<1>>, <<1, 2>>}

Texts == {1, 2}

\* NewData(text): the Data fragment made of the text.
NewData(text) == text

\* The cell NewCellWithOpts starts from, before any option is applied.
InitialCell(data) ==
  [data |-> data, colSpan |-> 1, rowSpan |-> 1, hierarchical |-> EmptyHierarchical]

(***************************************************************************)
(* Spec: one call of an area function.                                     *)
(***************************************************************************)
CellIdle == cpc = "idle" /\ opts = <<>> /\ idx = 0 /\ cell = NoCell

Init ==
  /\ pc = "call"
  /\ area \in Areas
  /\ op = "none"
  /\ args = <<>>
  /\ ret = Result(<<>>, FALSE)
  /\ CellIdle

Return(o, a, r) ==
  /\ pc = "call"
  /\ pc' = "done"
  /\ op' = o
  /\ args' = a
  /\ ret' = r
  /\ UNCHANGED <<area, cpc, opts, idx, cell>>

CallFromSize == \E size \in Sizes : Return("FromSize", <<size.X, size.Y>>, FromSize(size))

CallHSplit == \E p \in Percs : Return("HSplit", <<p>>, HSplit(area, p))

CallVSplit == \E p \in Percs : Return("VSplit", <<p>>, VSplit(area, p))

CallExcludeBorder == Return("ExcludeBorder", <<>>, ExcludeBorder(area))

CallWithRatio == \E r \in Ratios : Return("WithRatio", <<r.X, r.Y>>, WithRatio(area, r))

CallShrink ==
  \E t \in Cells, r \in Cells, b \in Cells, l \in Cells :
    Return("Shrink", <<t, r, b, l>>, Shrink(area, t, r, b, l))

CallShrinkPercent ==
  \E t \in ShrinkPercs, r \in ShrinkPercs, b \in ShrinkPercs, l \in ShrinkPercs :
    Return("ShrinkPercent", <<t, r, b, l>>, ShrinkPercent(area, t, r, b, l))

Next ==
  \/ CallFromSize
  \/ CallHSplit
  \/ CallVSplit
  \/ CallExcludeBorder
  \/ CallWithRatio
  \/ CallShrink
  \/ CallShrinkPercent

Spec == Init /\ [][Next]_vars

(***************************************************************************)
(* SpecCell: one call of NewCell or NewCellWithOpts.                       *)
(***************************************************************************)
InitCell ==
  /\ pc = "idle"
  /\ area = ZR
  /\ op = "none"
  /\ args = <<>>
  /\ ret = Result(<<>>, FALSE)
  /\ CellIdle

\* NewCellWithOpts up to the option loop.
CallNewCellWithOpts ==
  /\ cpc = "idle"
  /\ \E data \in DataLists, os \in OptLists(MaxOpts) :
       /\ opts' = os
       /\ cell' = InitialCell(data)
  /\ idx' = 0
  /\ cpc' = "loop"
  /\ UNCHANGED areaVars

\* NewCell: NewCellWithOpts with one Data fragment and no option.
CallNewCell ==
  /\ cpc = "idle"
  /\ \E text \in Texts : cell' = InitialCell(<<NewData(text)>>)
  /\ opts' = <<>>
  /\ idx' = 0
  /\ cpc' = "loop"
  /\ UNCHANGED areaVars

\* One iteration of the loop, opt.set(c), for an option built by setter k.
SetStep(k, c) ==
  /\ cpc = "loop"
  /\ idx < Len(opts)
  /\ opts[idx + 1].kind = k
  /\ cell' = c
  /\ idx' = idx + 1
  /\ UNCHANGED <<cpc, opts>>
  /\ UNCHANGED areaVars

SetCellColSpan == SetStep("CellColSpan", CellColSpan(cell, opts[idx + 1].val[1]))

SetCellRowSpan == SetStep("CellRowSpan", CellRowSpan(cell, opts[idx + 1].val[1]))

SetCellOpts == SetStep("CellOpts", CellOpts(cell, opts[idx + 1].val))

SetCellHeight == SetStep("CellHeight", CellHeight(cell, opts[idx + 1].val[1]))

SetCellHorizontalPadding ==
  SetStep("CellHorizontalPadding", CellHorizontalPadding(cell, opts[idx + 1].val[1]))

SetCellVerticalPadding ==
  SetStep("CellVerticalPadding", CellVerticalPadding(cell, opts[idx + 1].val[1]))

SetCellAlignHorizontal ==
  SetStep("CellAlignHorizontal", CellAlignHorizontal(cell, opts[idx + 1].val[1]))

SetCellAlignVertical ==
  SetStep("CellAlignVertical", CellAlignVertical(cell, opts[idx + 1].val[1]))

SetCellWrapAtWords == SetStep("CellWrapAtWords", CellWrapAtWords(cell))

\* The loop is over: the cell is returned.
ReturnCell ==
  /\ cpc = "loop"
  /\ idx = Len(opts)
  /\ cpc' = "done"
  /\ UNCHANGED <<opts, idx, cell>>
  /\ UNCHANGED areaVars

NextCell ==
  \/ CallNewCellWithOpts
  \/ CallNewCell
  \/ SetCellColSpan
  \/ SetCellRowSpan
  \/ SetCellOpts
  \/ SetCellHeight
  \/ SetCellHorizontalPadding
  \/ SetCellVerticalPadding
  \/ SetCellAlignHorizontal
  \/ SetCellAlignVertical
  \/ SetCellWrapAtWords
  \/ ReturnCell

SpecCell == InitCell /\ [][NextCell]_vars

(***************************************************************************)
(* Vocabulary of the properties.                                           *)
(***************************************************************************)
Done(o) == pc = "done" /\ op = o

Positive(r) == Dx(r) > 0 /\ Dy(r) > 0

Inside(r, s) ==
  /\ s.Min.X <= r.Min.X /\ r.Max.X <= s.Max.X
  /\ s.Min.Y <= r.Min.Y /\ r.Max.Y <= s.Max.Y

InRange(p) == 0 <= p /\ p <= 100

Least(a, b) == IF a <= b THEN a ELSE b

\* The ratio (x, y), x > 0 and y > 0, in lowest terms.
Reduced(x, y) ==
  CHOOSE q \in {Pt(i, j) : i \in 1..x, j \in 1..y} :
    /\ q.X * y = q.Y * x
    /\ \A d \in 2..x : ~(q.X % d = 0 /\ q.Y % d = 0)

(***************************************************************************)
(* C1: for a percentage in 0..100 and an area of positive width and        *)
(* height, HSplit returns no error, the heights of top and bottom add up   *)
(* to the area's height, top's height is floor(height * perc / 100), at 0  *)
(* the top is the zero rectangle and at 100 the bottom is.                 *)
(***************************************************************************)
C1_HSplitHeights ==
  (Done("HSplit") /\ InRange(args[1]) /\ Positive(area)) =>
    LET top == ret.rects[1]
        bottom == ret.rects[2]
    IN /\ ~ret.err
       /\ Dy(top) + Dy(bottom) = Dy(area)
       /\ 100 * Dy(top) <= Dy(area) * args[1]
       /\ Dy(area) * args[1] < 100 * (Dy(top) + 1)
       /\ (args[1] = 0 => top = ZR)
       /\ (args[1] = 100 => bottom = ZR)

C1_Witness ==
  /\ Done("HSplit")
  /\ args[1] = 50
  /\ Dx(area) > 0
  /\ Dy(area) = 3
  /\ Dy(ret.rects[1]) = 1
  /\ Dy(ret.rects[2]) = 2

(***************************************************************************)
(* C2: FromSize, HSplit, VSplit, Shrink and ShrinkPercent return an error  *)
(* exactly when an argument is out of its range, and every rectangle       *)
(* returned together with an error is the zero rectangle.                  *)
(***************************************************************************)
C2_ErrorIffOutOfRange ==
  pc = "done" =>
    /\ op = "FromSize" => (ret.err <=> (args[1] < 0 \/ args[2] < 0))
    /\ op \in {"HSplit", "VSplit"} => (ret.err <=> ~InRange(args[1]))
    /\ op = "Shrink" => (ret.err <=> \E i \in 1..4 : args[i] < 0)
    /\ op = "ShrinkPercent" => (ret.err <=> \E i \in 1..4 : ~InRange(args[i]))
    /\ op \in {"ExcludeBorder", "WithRatio"} => ~ret.err
    /\ ret.err => \A i \in 1..Len(ret.rects) : ret.rects[i] = ZR

C2_Witness ==
  /\ Done("ShrinkPercent")
  /\ args = <<0, 100, 50, 101>>
  /\ Positive(area)
  /\ ret = Result(<<ZR>>, TRUE)

(***************************************************************************)
(* C3: ExcludeBorder of an area at least 2 wide and 2 high, anywhere on    *)
(* the grid, is the area shrunk by one cell on every side; of a smaller    *)
(* area it is the zero rectangle.                                          *)
(***************************************************************************)
C3_ExcludeBorderExact ==
  Done("ExcludeBorder") =>
    ret.rects[1] =
      IF Dx(area) >= 2 /\ Dy(area) >= 2
        THEN [Min |-> Pt(area.Min.X + 1, area.Min.Y + 1),
              Max |-> Pt(area.Max.X - 1, area.Max.Y - 1)]
        ELSE ZR

C6_ShrinkClamped ==
  (Done("Shrink") /\ \A i \in 1..4 : args[i] >= 0) =>
    LET r == ret.rects[1] IN
    /\ ~ret.err
    /\ Dx(r) >= 0
    /\ Dy(r) >= 0
    /\ IF args[4] + args[2] >= Dx(area) \/ args[1] + args[3] >= Dy(area)
         THEN r = ZR
         ELSE /\ r = [Min |-> Pt(area.Min.X + args[4], area.Min.Y + args[1]),
                      Max |-> Pt(area.Max.X - args[2], area.Max.Y - args[3])]
              /\ Positive(r)
              /\ Inside(r, area)

C6_Witness ==
  /\ Done("Shrink")
  /\ args = <<1, 0, 0, 2>>
  /\ Size(area) = Pt(3, 3)
  /\ Size(ret.rects[1]) = Pt(1, 2)

(***************************************************************************)
(* C7 as stated: ShrinkPercent(area, 50, 50, 50, 50) is the zero           *)
(* rectangle for every area.                                               *)
(***************************************************************************)
C7_AlwaysZero ==
  (Done("ShrinkPercent") /\ args = <<50, 50, 50, 50>>) => ret.rects[1] = ZR

(***************************************************************************)
(* C7: ShrinkPercent(area, 50, 50, 50, 50) returns no error; it is the     *)
(* zero rectangle exactly when the width or the height of the area is      *)
(* even, and the middle 1x1 cell of the area when both are odd.            *)
(***************************************************************************)
C7_ZeroIffEvenDimension ==
  (Done("ShrinkPercent") /\ args = <<50, 50, 50, 50>>) =>
    /\ ~ret.err
    /\ IF Dx(area) % 2 = 0 \/ Dy(area) % 2 = 0
         THEN ret.rects[1] = ZR
         ELSE LET x == area.Min.X + (Dx(area) - 1) \div 2
                  y == area.Min.Y + (Dy(area) - 1) \div 2
              IN ret.rects[1] = [Min |-> Pt(x, y), Max |-> Pt(x + 1, y + 1)]

C7_Witness ==
  /\ Done("ShrinkPercent")
  /\ args = <<50, 50, 50, 50>>
  /\ Size(area) = Pt(2, 3)
  /\ ret = Result(<<ZR>>, FALSE)

(***************************************************************************)
(* C8: for an input that is the zero rectangle or has positive width and   *)
(* height, every rectangle returned without error by HSplit, VSplit,       *)
(* ExcludeBorder, WithRatio, Shrink or ShrinkPercent is the zero rectangle *)
(* or has width >= 1 and height >= 1.                                      *)
(***************************************************************************)
C8_DegenerateIsZeroRect ==
  ( /\ pc = "done"
    /\ op \in {"HSplit", "VSplit", "ExcludeBorder", "WithRatio", "Shrink", "ShrinkPercent"}
    /\ ~ret.err
    /\ (area = ZR \/ Positive(area)) ) =>
    \A i \in 1..Len(ret.rects) :
      ret.rects[i] = ZR \/ (Dx(ret.rects[i]) >= 1 /\ Dy(ret.rects[i]) >= 1)

(***************************************************************************)
(* Vocabulary of the Cell properties.                                      *)
(***************************************************************************)
Fields ==
  {"colSpan", "rowSpan", "cellOpts", "height", "horizontalPadding",
   "verticalPadding", "alignHorizontal", "alignVertical", "wrapMode"}

\* The value of a field, a span being shown as <<span>>.
FieldOf(c, f) ==
  CASE f = "colSpan" -> <<c.colSpan>>
    [] f = "rowSpan" -> <<c.rowSpan>>
    [] f = "cellOpts" -> c.hierarchical.cellOpts
    [] f = "height" -> c.hierarchical.height
    [] f = "horizontalPadding" -> c.hierarchical.horizontalPadding
    [] f = "verticalPadding" -> c.hierarchical.verticalPadding
    [] f = "alignHorizontal" -> c.hierarchical.alignHorizontal
    [] f = "alignVertical" -> c.hierarchical.alignVertical
    [] f = "wrapMode" -> c.hierarchical.wrapMode

\* The field an option targets.
Target(o) ==
  CASE o.kind = "CellColSpan" -> "colSpan"
    [] o.kind = "CellRowSpan" -> "rowSpan"
    [] o.kind = "CellOpts" -> "cellOpts"
    [] o.kind = "CellHeight" -> "height"
    [] o.kind = "CellHorizontalPadding" -> "horizontalPadding"
    [] o.kind = "CellVerticalPadding" -> "verticalPadding"
    [] o.kind = "CellAlignHorizontal" -> "alignHorizontal"
    [] o.kind = "CellAlignVertical" -> "alignVertical"
    [] o.kind = "CellWrapAtWords" -> "wrapMode"

\* The value an option is to write to its field.
Written(o) == IF o.kind = "CellWrapAtWords" THEN <<AtWords>> ELSE o.val

Default(f) == IF f \in {"colSpan", "rowSpan"} THEN <<1>> ELSE <<>>

\* The value of field f after the options os: the last write, or the default.
Expected(f, os) ==
  LET I == {i \in 1..Len(os) : Target(os[i]) = f}
  IN IF I = {}
       THEN Default(f)
       ELSE Written(os[CHOOSE i \in I : \A j \in I : j <= i])

RECURSIVE ApplyAll(_, _)
\* The options os applied to c, first to last.
ApplyAll(os, c) == IF os = <<>> THEN c ELSE ApplyAll(Tail(os), set(Head(os), c))

(***************************************************************************)
(* C9: NewCellWithOpts starts from colSpan = 1, rowSpan = 1 and unset      *)
(* hierarchical fields and applies the options in list order: after any    *)
(* number of them, and in the returned cell, every field holds the value   *)
(* of the last applied option that targets it, or its default if none.     *)
(***************************************************************************)
C9_LastWriteWins ==
  cpc \in {"loop", "done"} =>
    \A f \in Fields : FieldOf(cell, f) = Expected(f, SubSeq(opts, 1, idx))

C9_Witness ==
  /\ cpc = "done"
  /\ Len(opts) = 3
  /\ opts[1] = Opt("CellColSpan", <<1>>)
  /\ opts[2] = Opt("CellHeight", <<1>>)
  /\ opts[3] = Opt("CellColSpan", <<0>>)
  /\ cell.colSpan = 0
  /\ cell.rowSpan = 1
  /\ cell.hierarchical.height = <<1>>

(***************************************************************************)
(* C10: applying an option writes the option's value to the one field it   *)
(* targets and leaves the data and every other field of the cell as they   *)
(* were; and a returned cell whose options target pairwise different       *)
(* fields is the cell that any other order of these options builds.        *)
(***************************************************************************)
C10_StepFrame ==
  idx' = idx + 1 =>
    /\ cell'.data = cell.data
    /\ FieldOf(cell', Target(opts[idx'])) = Written(opts[idx'])
    /\ \A f \in Fields \ {Target(opts[idx'])} : FieldOf(cell', f) = FieldOf(cell, f)

C10_OrderFree ==
  ( /\ cpc = "done"
    /\ \A i, j \in 1..Len(opts) : i # j => Target(opts[i]) # Target(opts[j]) ) =>
    \A p \in Permutations(1..Len(opts)) :
      ApplyAll([i \in 1..Len(opts) |-> opts[p[i]]], InitialCell(cell.data)) = cell

C10_OneFieldPerOption == [][C10_StepFrame]_vars /\ []C10_OrderFree

C10_Witness ==
  /\ cpc = "done"
  /\ Len(opts) = 3
  /\ opts[1] = Opt("CellRowSpan", <<0>>)
  /\ opts[2] = Opt("CellWrapAtWords", <<>>)
  /\ opts[3] = Opt("CellOpts", <<1, 2>>)
  /\ cell.data = <<1, 2>>
  /\ cell.colSpan = 1
  /\ cell.rowSpan = 0
  /\ cell.hierarchical.wrapMode = <<AtWords>>
  /\ cell.hierarchical.cellOpts = <<1, 2>>

====
